---- MODULE Spec2Model ----
(***************************************************************************)
(* MegaETHClient and its WebSocketManager (src/src/operations/             *)
(* simulations.ts) as a state machine.                                     *)
(*                                                                         *)
(* Scheduling follows the JavaScript event loop: a socket event, a timer   *)
(* or an inbound message runs its handler and every promise continuation   *)
(* it releases as one step.  The only place where further synchronous      *)
(* caller code can run between two halves of a method is the await in      *)
(* subscribe() when connect() returned at once (pc "gap").                 *)
(*                                                                         *)
(* The operators that translate the methods work on a record S holding    *)
(* the fields of both objects, so that one handler can call another; Cur  *)
(* reads the variables into such a record and Apply writes one back.  An   *)
(* asynchronous call is a record k (its locals and where it is suspended) *)
(* kept in the bag tasks while it is suspended.                            *)
(*                                                                         *)
(* ev holds what the last step returned, emitted and sent; Observe clears  *)
(* it before the next step, so it never distinguishes program states.      *)
(***************************************************************************)
EXTENDS Integers, Sequences, FiniteSets, Bags, TLC

\* ---------------------------------------------------------------- bounds
MaxDetached == 1        \* sockets alive that this.connection no longer refers to
MaxTimers == 1          \* reconnect timers pending at the same time
MaxTasks == 2           \* asynchronous calls suspended at the same time (general scenario)
MaxRequestId == 2       \* request ids handed out (general scenario)
MaxFaults == 1          \* closes by the peer and connect timeouts (general scenario)
OutageRequestId == 1    \* request ids handed out (outage scenario)
OutageFaults == 6       \* closes by the peer and connect timeouts (outage scenario)
RpcRequestId == 2       \* request ids handed out (HTTP scenario)
LiveRequestId == 1      \* request ids handed out (fair scenario)
LiveFaults == 2         \* closes by the peer and connect timeouts (fair scenario)
LiveTasks == 2          \* asynchronous calls suspended at the same time (fair scenario)
ResubRequestId == 4     \* request ids handed out (resubscription scenario)
ResubFaults == 1        \* closes by the peer and connect timeouts (resubscription scenario)
ResubTasks == 2         \* asynchronous calls suspended at the same time (resubscription scenario)
MaxFragments == 2       \* fragments an error message is made of
OutageTasks == 2        \* asynchronous calls suspended at the same time (outage scenario)
MaxHandles == 3         \* distinct local handles the random suffix can yield
MaxServerIds == 2       \* distinct subscription ids the server answers with
megaethMaxSubscriptions == 1   \* config.megaethMaxSubscriptions

\* ------------------------------------------------------ program constants
maxReconnectAttempts == 5
reconnectDelay == 1000

Handles == 1..MaxHandles
ServerIds == 1..MaxServerIds
\* the result payloads of eth_subscription notifications
Payloads == {"head1", "head2"}
Callbacks == {"cbA"}
\* the (eventType, params) pairs callers subscribe with; "{}" is the default
Requests == { [eventType |-> "newHeads", params |-> "{}"],
              [eventType |-> "logs", params |-> "filter"] }
\* sockets that this.connection no longer refers to: "late" is still connecting
\* after its connect timeout, "closingPend" was closed by disconnect() while the
\* connect() that made it was still waiting
DetachedKinds == {"late", "open", "closing", "closingPend"}

VARIABLES
  conn,               \* this.connection: "null", or its socket's state: "connecting",
                      \* "late" (connecting, connect timeout passed), "open", "closed"
  detached,           \* how many sockets of each DetachedKind still raise events
  reconnectAttempts,  \* WebSocketManager.reconnectAttempts
  heartbeatInterval,  \* WebSocketManager.heartbeatInterval is set
  heartbeatTimers,    \* interval timers started by setupHeartbeat and not cleared
  isConnecting,       \* WebSocketManager.isConnecting
  timers,             \* number of pending handleReconnection timers
  clientHandlers,     \* the client's "message"/"reconnected" handlers are registered
  listeners,          \* messageHandler closures of subscribe() on "message"
  subscriptions,      \* MegaETHClient.subscriptions, in Map insertion order
  requestId,          \* MegaETHClient.requestId
  tasks,              \* the suspended asynchronous calls (a bag)
  wire,               \* eth_subscribe frames sent and not yet answered
  ev,                 \* what the last step returned, emitted and sent
  terminal,           \* disconnect() was called and connectWebSocket() not since
  sinceOpen,          \* reconnects scheduled since the last successful open
  faults,             \* closes by the peer and connect timeouts so far
  exhausted,          \* "maxReconnectAttemptsReached" has been emitted and
                      \* disconnect() not called since (kept in the outage scenario)
  disconnected,       \* client.disconnect() has been called
  caps                \* the scenario's bounds on request ids and faults

vars == << conn, detached, reconnectAttempts, heartbeatInterval, heartbeatTimers,
           isConnecting, timers, clientHandlers, listeners, subscriptions, requestId,
           tasks, wire, ev, terminal, sinceOpen, faults, exhausted,
           disconnected, caps >>

\* ------------------------------------------------------------- helpers
Min(A) == CHOOSE x \in A : \A y \in A : x <= y

RECURSIVE Pow2(_)
Pow2(n) == IF n <= 0 THEN 1 ELSE 2 * Pow2(n - 1)

\* stands for a response with an error member instead of a result
RpcError == 0

NewTask == [kind |-> "sub", pc |-> "run", req |-> 0, queue |-> << >>, idx |-> 0,
            opened |-> FALSE]
\* nothing returned, emitted, sent, scheduled or given up
Quiet == [op |-> "none", res |-> "none", emitted |-> {}, sent |-> {}, delay |-> 0,
          aux |-> "none", lost |-> {}, msg |-> << >>, rpc |-> << >>,
          note |-> << >>, calls |-> << >>, failed |-> {}, tried |-> {}]

Cur == [ conn |-> conn, detached |-> detached,
         reconnectAttempts |-> reconnectAttempts,
         heartbeatInterval |-> heartbeatInterval, heartbeatTimers |-> heartbeatTimers,
         isConnecting |-> isConnecting,
         timers |-> timers, clientHandlers |-> clientHandlers,
         listeners |-> listeners, subscriptions |-> subscriptions,
         requestId |-> requestId, tasks |-> tasks, wire |-> wire, ev |-> Quiet,
         terminal |-> terminal, fault |-> FALSE, ok |-> TRUE ]

\* the state a step starts from, labelled with the operation it performs
Begin(op) == [Cur EXCEPT !.ev.op = op]

\* this.connection && this.connection.readyState === WebSocket.OPEN
ConnOpen(S) == S.conn = "open"

\* config.megaethMaxSubscriptions || 100
SubscriptionLimit == IF megaethMaxSubscriptions # 0 THEN megaethMaxSubscriptions ELSE 100

\* a limit check that lets one subscription too many through
LimitReached_Strict(S) == Len(S.subscriptions) > SubscriptionLimit

\* this.subscriptions.size >= (this.config.megaethMaxSubscriptions || 100)
LimitReached(S) == Len(S.subscriptions) >= SubscriptionLimit

HandlesOf(subs) == { subs[i].handle : i \in 1..Len(subs) }
ServerIdsOf(subs) == { subs[i].id : i \in 1..Len(subs) }

\* `sub_${Date.now()}_${Math.random()...}`: any handle may come out; handles that
\* occur nowhere are interchangeable, so one of them stands for all
HandleChoices(S) ==
  LET used == HandlesOf(S.subscriptions) \cup { l.handle : l \in S.listeners }
      fresh == Handles \ used
  IN used \cup (IF fresh = {} THEN {} ELSE {Min(fresh)})

\* the server picks message.result; ids in no entry are interchangeable
ServerIdChoices(S) ==
  LET used == ServerIdsOf(S.subscriptions)
      fresh == ServerIds \ used
  IN used \cup (IF fresh = {} THEN {} ELSE {Min(fresh)})

Suspended(S) == BagToSet(S.tasks)
NoGap(S) == \A k \in Suspended(S) : k.pc # "gap"

\* task k suspends
Park(S, k) ==
  [S EXCEPT !.tasks = @ (+) SetToBag({k}),
            !.ok = @ /\ BagCardinality(S.tasks) < caps.tasks]

\* task k is resumed
Resume(S, k) == [S EXCEPT !.tasks = @ (-) SetToBag({k})]

DetachedCount(S) ==
  S.detached["late"] + S.detached["open"] + S.detached["closing"]
    + S.detached["closingPend"]

\* ------------------------------------------------------ WebSocketManager
\* emit(event): recorded; the handlers of "reconnected" are run by Reconnected
Emit(S, event) == [S EXCEPT !.ev.emitted = @ \cup {event}]

\* a backoff that doubles once too often
Backoff_Doubled(attempts) == reconnectDelay * Pow2(attempts)

\* this.reconnectDelay * Math.pow(2, this.reconnectAttempts - 1)
Backoff(attempts) == reconnectDelay * Pow2(attempts - 1)

\* a handleReconnection() that gives up one close too late
HandleReconnection_Late(S) ==
  IF S.reconnectAttempts > maxReconnectAttempts
  THEN Emit(S, "maxReconnectAttemptsReached")
  ELSE LET n == S.reconnectAttempts + 1 IN
       [S EXCEPT !.reconnectAttempts = n,
                 !.timers = @ + 1,
                 !.ev.delay = Backoff(n),
                 !.ok = @ /\ S.timers < MaxTimers]

\* handleReconnection()
HandleReconnection(S) ==
  IF S.reconnectAttempts >= maxReconnectAttempts
  THEN Emit(S, "maxReconnectAttemptsReached")
  ELSE LET n == S.reconnectAttempts + 1 IN
       [S EXCEPT !.reconnectAttempts = n,
                 !.timers = @ + 1,
                 !.ev.delay = Backoff(n),
                 !.ok = @ /\ S.timers < MaxTimers]

\* a setupHeartbeat() that does not clear the interval it replaces
SetupHeartbeat_Leaky(S) ==
  [S EXCEPT !.heartbeatTimers = @ + 1, !.heartbeatInterval = TRUE]

\* setupHeartbeat(): the interval set before is cleared, a new one is started
SetupHeartbeat(S) ==
  [S EXCEPT !.heartbeatTimers = (IF S.heartbeatInterval THEN @ - 1 ELSE @) + 1,
            !.heartbeatInterval = TRUE]

\* the frame connection.ping() puts on the socket
Ping == [id |-> 0, method |-> "ping", eventType |-> "none", params |-> "none",
         subscription |-> 0]

\* the callback of the heartbeat interval
Heartbeat(S) ==
  IF ConnOpen(S) THEN [S EXCEPT !.ev.sent = @ \cup {Ping}] ELSE S

\* how connect() goes on for its caller: "ready" when it returns at once, "waiter"
\* when it polls the attempt in flight, "owner" when it opens a socket
ConnectPc(S) ==
  IF ConnOpen(S) THEN "ready"
  ELSE IF S.isConnecting THEN "waiter"
  ELSE "owner"

\* connect() up to its first await: a new socket replaces this.connection unless
\* the connection is open or an attempt is in flight
Connect(S) ==
  IF ConnectPc(S) # "owner" THEN S
  ELSE [S EXCEPT !.isConnecting = TRUE,
                 !.conn = "connecting",
                 !.detached["late"] = IF S.conn = "late" THEN @ + 1 ELSE @,
                 !.ok = @ /\ (S.conn = "late" => DetachedCount(S) < MaxDetached)]

\* disconnect() of the manager
ManagerDisconnect(S) ==
  LET kind == IF S.conn = "connecting" THEN "closingPend" ELSE "closing"
      S1 == [S EXCEPT !.heartbeatInterval = FALSE,
                      !.heartbeatTimers = IF S.heartbeatInterval THEN @ - 1 ELSE @]
      S2 == IF S.conn \in {"connecting", "late", "open"}
            THEN [S1 EXCEPT !.detached[kind] = @ + 1,
                            !.ok = @ /\ DetachedCount(S) < MaxDetached]
            ELSE S1
  IN [S2 EXCEPT !.conn = "null", !.clientHandlers = FALSE, !.listeners = {}]

\* ------------------------------------------------------- MegaETHClient
\* what resubscribeAll keeps of a subscription in its snapshot
Snapshot(sub) ==
  [eventType |-> sub.eventType, params |-> sub.params, callback |-> sub.callback,
   origin |-> sub.origin]

\* the arguments resubscribeAll passes to subscribe() for a snapshot entry
ResubscribeArgs(q) == [eventType |-> q.eventType, params |-> q.params]

\* the entry subscribe() stores on a successful response; origin is the callback
\* a caller attached to the subscription it stands for ("noop": none), returned
\* tells that a caller got the handle, req is payload.id of the call that stored it
NewSubscription(l, serverSubId, returned) ==
  [handle |-> l.handle, id |-> serverSubId, eventType |-> l.eventType,
   params |-> l.params, callback |-> "noop", origin |-> l.origin,
   returned |-> returned, req |-> l.id]

\* a messageHandler that takes every message for its own
MessageMatches_Any(l, message) == TRUE

\* message.id === payload.id
MessageMatches(l, message) == message.id = l.id

\* Map.set: an existing key keeps its place
MapSet(subs, e) ==
  IF \E i \in 1..Len(subs) : subs[i].handle = e.handle
  THEN [i \in 1..Len(subs) |-> IF subs[i].handle = e.handle THEN e ELSE subs[i]]
  ELSE Append(subs, e)

\* Map.delete
MapDelete(subs, h) == SelectSeq(subs, LAMBDA e : e.handle # h)

RECURSIVE NextEntry(_, _, _)
RECURSIVE SendSubscribe(_, _, _)

\* the subscribe() promise of task k has settled: a caller's call is over, the
\* loop of resubscribeAll goes on to its next snapshot entry
SubscribeSettled(S, k, h) ==
  IF k.kind = "resub" THEN NextEntry(S, k, h) ELSE S

\* the errors subscribe() fails with before its frame is on the socket
Unsent == {"SUBSCRIPTION_LIMIT_EXCEEDED", "socket error", "WebSocket connection timeout",
           "Connection failed", "WebSocket connection not open"}

\* a resubscribeAll() that gives up at the first subscribe() that rejects
SubscribeFailed_Aborts(S, k, err, h) ==
  LET entry == IF k.kind = "resub" THEN {[idx |-> k.idx, of |-> Len(k.queue)]} ELSE {}
  IN [S EXCEPT !.ev.res = err, !.ev.failed = @ \cup entry]

\* subscribe() of task k rejects with err; resubscribeAll catches and logs it, and
\* the entry it was re-issuing is lost when no frame went out for it
SubscribeFailed(S, k, err, h) ==
  LET gone == IF k.kind = "resub" /\ err \in Unsent
              THEN {ResubscribeArgs(k.queue[k.idx])} ELSE {}
      entry == IF k.kind = "resub" THEN {[idx |-> k.idx, of |-> Len(k.queue)]} ELSE {}
  IN SubscribeSettled([S EXCEPT !.ev.res = err, !.ev.lost = @ \cup gone,
                                !.ev.failed = @ \cup entry], k, h)

SubscribeOk(S, k, h) ==
  SubscribeSettled([S EXCEPT !.ev.res = "ok"], k, h)

\* subscribe() from its start to the await of connectWebSocket(); atCaller: the
\* call was made by caller code, which may go on before the continuation runs
SubscribeCall(S, k, h, atCaller) ==
  IF LimitReached(S) THEN SubscribeFailed(S, k, "SUBSCRIPTION_LIMIT_EXCEEDED", h)
  ELSE LET pc == ConnectPc(S)
           S1 == [Connect(S) EXCEPT !.terminal = FALSE]
       IN IF pc = "ready"
          THEN IF atCaller THEN Park(S1, [k EXCEPT !.pc = "gap"])
               ELSE SendSubscribe(S1, k, h)
          ELSE Park(S1, [k EXCEPT !.pc = pc, !.opened = FALSE])

\* subscribe() after connectWebSocket() resolved: handle, payload, timer, handler, send
SendSubscribe(S, k, h) ==
  LET q == k.queue[k.idx]
      a == IF k.kind = "resub" THEN ResubscribeArgs(q)
           ELSE [eventType |-> q.eventType, params |-> q.params]
      id == S.requestId
      l == [id |-> id, handle |-> h, eventType |-> a.eventType,
            params |-> a.params, origin |-> q.origin]
      f == [id |-> id, method |-> "eth_subscribe", eventType |-> a.eventType,
            params |-> a.params, subscription |-> 0]
      S1 == [S EXCEPT !.requestId = id + 1,
                      !.listeners = @ \cup {l},
                      !.ok = @ /\ id <= caps.ids]
  IN IF ConnOpen(S1)
     THEN Park([S1 EXCEPT !.wire = @ \cup {f}, !.ev.sent = @ \cup {f}],
               [k EXCEPT !.pc = "sent", !.req = id])
     ELSE SubscribeFailed(S1, k, "WebSocket connection not open", h)

\* the loop of resubscribeAll: the next snapshot entry, if any
NextEntry(S, k, h) ==
  IF k.idx + 1 > Len(k.queue) THEN S
  ELSE SubscribeCall([S EXCEPT !.ev.tried = @ \cup {[idx |-> k.idx + 1,
                                                      of |-> Len(k.queue)]}],
                     [k EXCEPT !.idx = @ + 1, !.req = 0, !.pc = "run"], h, FALSE)

\* resubscribeAll()
ResubscribeAll(S, h) ==
  LET snap == [i \in 1..Len(S.subscriptions) |-> Snapshot(S.subscriptions[i])]
  IN NextEntry([S EXCEPT !.subscriptions = << >>],
               [NewTask EXCEPT !.kind = "resub", !.queue = snap], h)

\* the timer callback of handleReconnection after await this.connect() resolved
Reconnected(S, h) ==
  LET S1 == Emit(S, "reconnected") IN
  IF S1.clientHandlers THEN ResubscribeAll(S1, h)
  ELSE [S1 EXCEPT !.ev.lost = { ResubscribeArgs(Snapshot(S.subscriptions[i])) :
                                  i \in 1..Len(S.subscriptions) }]

\* connect() resolved for task k
ConnectResolved(S, k, h) ==
  IF k.kind = "reconnect" THEN Reconnected(S, h) ELSE SendSubscribe(S, k, h)

\* connect() rejected for task k
ConnectRejected(S, k, err, h) ==
  IF k.kind = "reconnect" THEN Emit(S, "reconnectFailed")
  ELSE SubscribeFailed(S, k, err, h)

\* ------------------------------------------------------------- callRPC
\* the two texts callRPC looks for in an error message, and others it does not
ExpiredText == "realtime transaction expired"
MiniBlockText == "mini block not found"
Fragments == {ExpiredText, MiniBlockText, "Realtime Transaction Expired", "boom"}

\* an error message is the concatenation of its fragments; << >> is "" or absent
RECURSIVE MessagesUpTo(_)
MessagesUpTo(n) ==
  IF n = 0 THEN {<< >>}
  ELSE MessagesUpTo(n - 1) \cup
       { Append(m, x) : m \in MessagesUpTo(n - 1), x \in Fragments }
ErrorMessages == MessagesUpTo(MaxFragments)

\* String.prototype.includes, fragment by fragment
Includes(message, text) == \E i \in 1..Len(message) : message[i] = text

\* JSON values of error.code: numbers and strings
Num(n) == [isNum |-> TRUE, num |-> n, str |-> ""]
Str(s) == [isNum |-> FALSE, num |-> 0, str |-> s]
\* an optional member is << >> when absent and << v >> when supplied
Codes == {<< >>, << Num(0) >>, << Num(42) >>, << Str("E42") >>}
Datas == {<< >>, << "" >>, << "a=1" >>}
Falsy(v) == IF v.isNum THEN v.num = 0 ELSE v.str = ""

\* x || fallback, for an optional member x
OrElse(x, fallback) == IF x = << >> \/ Falsy(x[1]) THEN fallback ELSE x[1]

\* params[0] || fallback
FirstParam(params, fallback) ==
  IF params = << >> \/ params[1] = "" THEN fallback ELSE params[1]

Methods == {"", "eth_chainId"}
ParamLists == {<< >>, << "0xdead" >>, << "" >>}

\* what the HTTP round trip yields: response.data with result or error, or a
\* failure of the request itself (refused, timed out, non-2xx), whose message is
\* that of error.response.data.error when the failure carries such a body; echo
\* tells whether response.data.id is the request's id
HttpResponses ==
  [kind : {"result"}, echo : BOOLEAN, result : {"0x1"}, message : {<< >>},
   code : {<< >>}, data : {<< >>}]
  \cup [kind : {"error"}, echo : BOOLEAN, result : {""}, message : ErrorMessages,
        code : Codes, data : Datas]
  \cup [kind : {"transport"}, echo : {TRUE}, result : {""}, message : ErrorMessages,
        code : {<< >>}, data : {<< >>}]

NewError(kind, message, code, data) ==
  [kind |-> kind, message |-> message, code |-> code, data |-> data,
   annotated |-> FALSE, rpcMethod |-> "", rpcParams |-> << >>]

\* an error mapping that looks for the mini block text first
ClassifyError_MiniFirst(error, params) ==
  LET errorMessage == IF error.message = << >> THEN << "Unknown RPC error" >>
                      ELSE error.message
      errorCode == OrElse(error.code, Str("UNKNOWN"))
  IN IF Includes(errorMessage, MiniBlockText)
     THEN NewError("MiniBlockNotFoundError",
                   << "Mini block ", FirstParam(params, "0"), " not found" >>,
                   Str("MINI_BLOCK_NOT_FOUND"), << >>)
     ELSE IF Includes(errorMessage, ExpiredText)
     THEN NewError("RealtimeTransactionExpiredError",
                   << "Transaction ", FirstParam(params, "unknown"),
                      " expired before inclusion" >>,
                   Str("REALTIME_TX_EXPIRED"), << >>)
     ELSE NewError("MegaETHError", errorMessage, errorCode, error.data)

\* the error callRPC throws for response.data.error
ClassifyError(error, params) ==
  LET errorMessage == IF error.message = << >> THEN << "Unknown RPC error" >>
                      ELSE error.message
      errorCode == OrElse(error.code, Str("UNKNOWN"))
  IN IF Includes(errorMessage, ExpiredText)
     THEN NewError("RealtimeTransactionExpiredError",
                   << "Transaction ", FirstParam(params, "unknown"),
                      " expired before inclusion" >>,
                   Str("REALTIME_TX_EXPIRED"), << >>)
     ELSE IF Includes(errorMessage, MiniBlockText)
     THEN NewError("MiniBlockNotFoundError",
                   << "Mini block ", FirstParam(params, "0"), " not found" >>,
                   Str("MINI_BLOCK_NOT_FOUND"), << >>)
     ELSE NewError("MegaETHError", errorMessage, errorCode, error.data)

\* the catch of callRPC: a MegaETHError is rethrown as it is, any other error
\* gets rpcMethod and rpcParams; error.response.data.error.message is read for
\* the console only
Rethrow(error, method, params) ==
  IF error.kind \in {"MegaETHError", "RealtimeTransactionExpiredError",
                     "MiniBlockNotFoundError"}
  THEN error
  ELSE [error EXCEPT !.annotated = TRUE, !.rpcMethod = method, !.rpcParams = params]

\* a callRPC() that does not advance the counter
CallRpc_SameId(S, method, params, response) ==
  LET call == [method |-> method, params |-> params, id |-> S.requestId,
               response |-> response, responseId |-> S.requestId,
               returned |-> TRUE, result |-> response.result, thrown |-> << >>]
  IN [S EXCEPT !.ev.rpc = << call >>]

\* callRPC(method, params) with the outcome of its HTTP round trip
CallRpc(S, method, params, response) ==
  LET id == S.requestId
      call == [method |-> method, params |-> params, id |-> id,
               response |-> response,
               responseId |-> IF response.echo THEN id ELSE id + 1,
               returned |-> FALSE, result |-> "", thrown |-> << >>]
      S1 == [S EXCEPT !.requestId = id + 1, !.ok = @ /\ id <= caps.ids]
  IN IF method = ""
     THEN [S EXCEPT !.ev.rpc =
             << [call EXCEPT !.thrown =
                   << NewError("Error", << "RPC method is required" >>,
                               Str(""), << >>) >>] >>]
     ELSE IF response.kind = "transport"
     THEN [S1 EXCEPT !.ev.rpc =
             << [call EXCEPT !.thrown =
                   << Rethrow(NewError("Error", << "Request failed" >>, Str(""), << >>),
                              method, params) >>] >>]
     ELSE IF response.kind = "error"
     THEN [S1 EXCEPT !.ev.rpc =
             << [call EXCEPT !.thrown =
                   << Rethrow(ClassifyError(response, params), method, params) >>] >>]
     ELSE [S1 EXCEPT !.ev.rpc =
             << [call EXCEPT !.returned = TRUE, !.result = response.result] >>]

\* ----------------------------------------------------------------- steps
\* The frames that still can be answered: those sent on the open connection whose
\* handler is registered.  A handler whose frame is gone compares message.id with
\* an id that never arrives: it is not kept.
Answerable(S) ==
  IF ConnOpen(S) THEN { f \in S.wire : \E l \in S.listeners : l.id = f.id } ELSE {}

\* the variables after a step; a step that leaves the bounds is not taken
Apply(S) ==
  /\ ev = Quiet
  /\ S.ok
  /\ conn' = S.conn
  /\ detached' = S.detached
  /\ reconnectAttempts' = S.reconnectAttempts
  /\ heartbeatInterval' = S.heartbeatInterval
  /\ heartbeatTimers' = S.heartbeatTimers
  /\ isConnecting' = S.isConnecting
  /\ timers' = S.timers
  /\ clientHandlers' = S.clientHandlers
  /\ listeners' = { l \in S.listeners : \E f \in Answerable(S) : f.id = l.id }
  /\ subscriptions' = S.subscriptions
  /\ requestId' = S.requestId
  /\ tasks' = S.tasks
  /\ wire' = Answerable(S)
  /\ ev' = S.ev
  /\ terminal' = S.terminal
  /\ sinceOpen' = IF S.ev.op = "open" THEN 0
                  ELSE IF S.timers > timers THEN sinceOpen + 1
                  ELSE sinceOpen
  /\ faults' = IF S.fault THEN faults + 1 ELSE faults
  /\ faults' <= caps.faults
  /\ exhausted' = /\ caps.outage /\ S.ev.op # "disconnect"
                  /\ exhausted \/ "maxReconnectAttemptsReached" \in S.ev.emitted
  /\ disconnected' = (disconnected \/ S.ev.op = "disconnect")
  /\ caps' = caps

\* a step whose continuation may mint a handle: every handle when it does
Chain(F(_)) ==
  \E h \in HandleChoices(Cur) :
    /\ h = Min(HandleChoices(Cur)) \/ F(h).requestId # requestId
    /\ Apply(F(h))

\* what the last step returned, emitted and sent has been taken note of
Observe ==
  /\ ev # Quiet
  /\ ev' = Quiet
  /\ UNCHANGED << conn, detached, reconnectAttempts, heartbeatInterval,
                  heartbeatTimers, isConnecting, timers, clientHandlers, listeners, subscriptions, requestId,
                  tasks, wire, terminal, sinceOpen, faults, exhausted,
                  disconnected, caps >>

\* the connect() call that opened the socket of the attempt in flight
OwnerTask(S) == CHOOSE k \in Suspended(S) : k.pc = "owner"

\* the calls polling in connect() see the connection open (kept for the record:
\* opened tells that the attempt a caller waited on did open)
FlagWaiters(B) ==
  LET flag(k) == IF k.pc = "waiter" THEN [k EXCEPT !.opened = TRUE] ELSE k
      old == BagToSet(B)
      copies(y) == IF y \in old /\ flag(y) = y THEN B[y] ELSE 0
      flagged(y) == LET x == [y EXCEPT !.opened = FALSE]
                    IN IF y.pc = "waiter" /\ x \in old THEN B[x] ELSE 0
  IN [y \in { flag(k) : k \in old } |-> copies(y) + flagged(y)]

\* ---- calls made by caller code
\* client.subscribe(eventType, params) up to its first await
CallSubscribe(r) ==
  LET S0 == Begin("subscribe")
      k == [NewTask EXCEPT !.idx = 1,
                           !.queue = << [eventType |-> r.eventType, params |-> r.params,
                                         callback |-> "noop", origin |-> "noop"] >>]
      S1 == SubscribeCall(S0, k, 0, TRUE)
  IN Apply(S1)

\* the continuation of subscribe() after the await of an already open connection
GapContinue(k) ==
  /\ k \in Suspended(Cur) /\ k.pc = "gap"
  /\ Chain(LAMBDA h : SendSubscribe(Resume(Begin("send"), k), k, h))

\* an unsubscribe() that does not look the handle up before it sends
Unsubscribe_Blind(S, h) ==
  LET id == S.requestId
      S1 == [S EXCEPT !.requestId = id + 1, !.ok = @ /\ id <= caps.ids,
                      !.ev.aux = IF h \in HandlesOf(S.subscriptions) THEN "known"
                                 ELSE "unknown"]
  IN IF ConnOpen(S1)
     THEN [S1 EXCEPT !.ev.sent = @ \cup {[id |-> id, method |-> "eth_unsubscribe",
                                          eventType |-> "none", params |-> "none",
                                          subscription |-> 0]},
                     !.subscriptions = MapDelete(@, h),
                     !.ev.res = "true"]
     ELSE [S1 EXCEPT !.ev.res = "false"]

\* client.unsubscribe(subscriptionId)
Unsubscribe(S, h) ==
  IF h \notin HandlesOf(S.subscriptions)
  THEN [S EXCEPT !.ev.res = "false", !.ev.aux = "unknown"]
  ELSE LET id == S.requestId
           sub == S.subscriptions[Min({ i \in 1..Len(S.subscriptions) :
                                          S.subscriptions[i].handle = h })]
           S1 == [S EXCEPT !.requestId = id + 1, !.ok = @ /\ id <= caps.ids,
                           !.ev.aux = "known"]
       IN IF ConnOpen(S1)
          THEN [S1 EXCEPT !.ev.sent = @ \cup {[id |-> id, method |-> "eth_unsubscribe",
                                               eventType |-> "none", params |-> "none",
                                               subscription |-> sub.id]},
                          !.subscriptions = MapDelete(@, h),
                          !.ev.res = "true"]
          ELSE [S1 EXCEPT !.ev.res = "false"]

CallUnsubscribe(h) == Apply(Unsubscribe(Begin("unsubscribe"), h))

\* client.setSubscriptionCallback(subscriptionId, callback)
CallSetSubscriptionCallback(h, cb) ==
  /\ h \in HandlesOf(subscriptions)
  /\ Apply([Begin("setCallback") EXCEPT
              !.subscriptions = [i \in 1..Len(subscriptions) |->
                 IF subscriptions[i].handle = h
                 THEN [subscriptions[i] EXCEPT !.callback = cb, !.origin = cb]
                 ELSE subscriptions[i]]])

\* client.disconnect()
CallDisconnect ==
  Apply([ManagerDisconnect(Begin("disconnect")) EXCEPT
           !.subscriptions = << >>, !.terminal = TRUE])

\* ---- socket events
\* "open" on the socket this.connection refers to
ConnOpens ==
  /\ NoGap(Cur)
  /\ conn \in {"connecting", "late"}
  /\ LET S1 == SetupHeartbeat([Begin("open") EXCEPT !.conn = "open",
                                                    !.isConnecting = FALSE,
                                                    !.reconnectAttempts = 0,
                                                    !.tasks = FlagWaiters(@)])
     IN IF conn = "connecting"
        THEN Chain(LAMBDA h : ConnectResolved(Resume(S1, OwnerTask(S1)), OwnerTask(S1), h))
        ELSE Apply(S1)

\* "open" on a socket that connected after its connect timeout and was replaced
DetachedOpens ==
  /\ NoGap(Cur)
  /\ detached["late"] > 0
  /\ Apply(SetupHeartbeat([Begin("open") EXCEPT !.detached["late"] = @ - 1,
                                                !.detached["open"] = @ + 1,
                                                !.isConnecting = FALSE,
                                                !.reconnectAttempts = 0]))

\* "close" on the socket this.connection refers to, after "error" when it never
\* opened
ConnCloses ==
  /\ NoGap(Cur)
  /\ conn \in {"connecting", "late", "open"}
  /\ LET S1 == [Begin("close") EXCEPT !.conn = "closed",
                                      !.wire = {},
                                      !.isConnecting = FALSE,
                                      !.fault = TRUE]
         S2 == HandleReconnection(S1)
     IN IF conn = "connecting"
        THEN Chain(LAMBDA h : ConnectRejected(Resume(S2, OwnerTask(S2)), OwnerTask(S2),
                                              "socket error", h))
        ELSE Apply(S2)

\* "close" on a socket this.connection no longer refers to
DetachedCloses(kind) ==
  /\ NoGap(Cur)
  /\ detached[kind] > 0
  /\ LET S1 == [Begin("close") EXCEPT !.detached[kind] = @ - 1,
                                      !.isConnecting = FALSE,
                                      !.fault = kind \in {"late", "open"}]
         S2 == HandleReconnection(S1)
     IN IF kind = "closingPend"
        THEN Chain(LAMBDA h : ConnectRejected(Resume(S2, OwnerTask(S2)), OwnerTask(S2),
                                              "socket error", h))
        ELSE Apply(S2)

\* the connect timeout of the attempt in flight
ConnectTimeout ==
  /\ NoGap(Cur)
  /\ conn = "connecting"
  /\ LET S1 == [Begin("connectTimeout") EXCEPT !.conn = "late",
                                               !.isConnecting = FALSE,
                                               !.fault = TRUE]
     IN Chain(LAMBDA h : ConnectRejected(Resume(S1, OwnerTask(S1)), OwnerTask(S1),
                                         "WebSocket connection timeout", h))

\* ---- timers
\* checkConnection of a connect() call waiting on the attempt in flight
PollTimer(k) ==
  /\ NoGap(Cur)
  /\ k \in Suspended(Cur) /\ k.pc = "waiter"
  /\ ConnOpen(Cur) \/ ~isConnecting
  /\ LET S0 == Resume(Begin("poll"), k) IN
     IF ConnOpen(S0) THEN Chain(LAMBDA h : ConnectResolved(S0, k, h))
     ELSE Chain(LAMBDA h : ConnectRejected(
                  [S0 EXCEPT !.ev.aux = IF k.opened THEN "opened" ELSE "unopened"],
                  k, "Connection failed", h))

\* the timer of handleReconnection fires
ReconnectTimer ==
  /\ NoGap(Cur)
  /\ timers > 0
  /\ LET S0 == [Begin("reconnect") EXCEPT !.timers = @ - 1]
         k == [NewTask EXCEPT !.kind = "reconnect"]
         pc == ConnectPc(S0)
         S1 == Connect(S0)
     IN IF pc = "ready" THEN Chain(LAMBDA h : Reconnected(S1, h))
        ELSE Apply(Park(S1, [k EXCEPT !.pc = pc]))

\* a 10 s timer that stores an entry for the call and resolves it
SubscribeTimeout_Stores(k) ==
  /\ NoGap(Cur)
  /\ k \in Suspended(Cur) /\ k.pc = "sent"
  /\ LET l == [id |-> k.req, handle |-> 1, eventType |-> "newHeads", params |-> "{}",
               origin |-> "noop"]
         S1 == [Resume(Begin("subscribeTimeout"), k) EXCEPT
                  !.subscriptions = MapSet(@, NewSubscription(l, 1, TRUE))]
     IN Chain(LAMBDA h : SubscribeOk(S1, k, h))

\* a heartbeat interval fires
HeartbeatTimer ==
  /\ NoGap(Cur)
  /\ heartbeatTimers > 0
  /\ Apply(Heartbeat(Begin("heartbeat")))

\* the 10 s timer of subscribe() fires
SubscribeTimeout(k) ==
  /\ NoGap(Cur)
  /\ k \in Suspended(Cur) /\ k.pc = "sent"
  /\ Chain(LAMBDA h : SubscribeFailed(Resume(Begin("subscribeTimeout"), k), k,
                                      "Subscription timeout", h))

\* ---- inbound messages
\* the response to an eth_subscribe frame: message.result, or RpcError for a
\* message that carries message.error
SubscribeResponse(f, result) ==
  /\ NoGap(Cur)
  /\ f \in wire
  /\ LET l == CHOOSE x \in listeners : MessageMatches(x, f)
         aw == { k \in Suspended(Cur) : k.pc = "sent" /\ k.req = l.id }
         S1 == [Begin("response") EXCEPT !.wire = @ \ {f}, !.listeners = @ \ {l},
                                         !.ev.msg = << [id |-> f.id, result |-> result] >>]
     IN IF aw = {}
        THEN Apply([S1 EXCEPT
                      !.ev.aux = "late",
                      !.subscriptions =
                         IF result = RpcError THEN @
                         ELSE MapSet(@, NewSubscription(l, result, FALSE))])
        ELSE LET k == CHOOSE x \in aw : TRUE
                 S2 == [Resume(S1, k) EXCEPT
                          !.subscriptions =
                             MapSet(@, NewSubscription(l, result, k.kind = "sub"))]
             IN IF result = RpcError
                THEN Chain(LAMBDA h : SubscribeFailed(Resume(S1, k), k, "rpc error", h))
                ELSE Chain(LAMBDA h : SubscribeOk(S2, k, h))

\* a handleWebSocketMessage() that goes on after the first matching entry
HandleWebSocketMessage_NoBreak(S, message) ==
  LET hit == { i \in 1..Len(S.subscriptions) :
                 S.subscriptions[i].id = message.subscription }
      call(i) == [callback |-> S.subscriptions[i].callback, arg |-> message.result]
      RECURSIVE all(_, _)
      all(i, done) == IF i > Len(S.subscriptions) THEN done
                      ELSE all(i + 1, IF i \in hit THEN Append(done, call(i)) ELSE done)
  IN IF hit = {} THEN [S EXCEPT !.ev.res = "dropped"]
     ELSE [S EXCEPT !.ev.res = S.subscriptions[Min(hit)].callback,
                    !.ev.aux = S.subscriptions[Min(hit)].origin,
                    !.ev.calls = all(1, @)]

\* handleWebSocketMessage(message) for message.method === "eth_subscription": the
\* callback of the first entry with the server id is called with params.result
HandleWebSocketMessage(S, message) ==
  LET hit == { i \in 1..Len(S.subscriptions) :
                 S.subscriptions[i].id = message.subscription }
  IN IF hit = {} THEN [S EXCEPT !.ev.res = "dropped"]
     ELSE LET sub == S.subscriptions[Min(hit)]
          IN [S EXCEPT !.ev.res = sub.callback,
                       !.ev.aux = sub.origin,
                       !.ev.calls = Append(@, [callback |-> sub.callback,
                                               arg |-> message.result])]

\* an eth_subscription notification for server id sid arrives on an open socket;
\* the manager emits "message" to the handlers registered
Notification(sid, payload) ==
  /\ NoGap(Cur)
  /\ conn = "open" \/ detached["open"] > 0
  /\ LET message == [subscription |-> sid, result |-> payload]
         S0 == [Begin("notify") EXCEPT !.ev.note = << message >>]
     IN IF clientHandlers
        THEN Apply(HandleWebSocketMessage(S0, message))
        ELSE Apply([S0 EXCEPT !.ev.res = "dropped"])

\* ------------------------------------------------------- specification
Start(c) ==
  /\ conn = "null"
  /\ detached = [d \in DetachedKinds |-> 0]
  /\ reconnectAttempts = 0
  /\ heartbeatInterval = FALSE
  /\ heartbeatTimers = 0
  /\ isConnecting = FALSE
  /\ timers = 0
  /\ clientHandlers = TRUE
  /\ listeners = {}
  /\ subscriptions = << >>
  /\ requestId = 1
  /\ tasks = EmptyBag
  /\ wire = {}
  /\ ev = Quiet
  /\ terminal = FALSE
  /\ sinceOpen = 0
  /\ faults = 0
  /\ exhausted = FALSE
  /\ disconnected = FALSE
  /\ caps = c

Init == Start([ids |-> MaxRequestId, faults |-> MaxFaults, tasks |-> MaxTasks,
               outage |-> FALSE])

\* the same program under a long outage: many faults, few requests
InitOutage == Start([ids |-> OutageRequestId, faults |-> OutageFaults,
                     tasks |-> OutageTasks, outage |-> TRUE])

Next ==
  \/ Observe
  \/ \E r \in Requests : CallSubscribe(r)
  \/ \E k \in Suspended(Cur) : GapContinue(k)
  \/ \E h \in Handles : CallUnsubscribe(h)
  \/ \E h \in Handles, cb \in Callbacks : CallSetSubscriptionCallback(h, cb)
  \/ CallDisconnect
  \/ ConnOpens
  \/ DetachedOpens
  \/ ConnCloses
  \/ \E kind \in DetachedKinds : DetachedCloses(kind)
  \/ ConnectTimeout
  \/ \E k \in Suspended(Cur) : PollTimer(k)
  \/ ReconnectTimer
  \/ HeartbeatTimer
  \/ \E k \in Suspended(Cur) : SubscribeTimeout(k)
  \/ \E f \in wire, result \in ServerIdChoices(Cur) \cup {RpcError} : SubscribeResponse(f, result)
  \/ \E sid \in ServerIds, payload \in Payloads : Notification(sid, payload)

\* the client after two subscribe() calls that were in flight together succeeded
\* (both passed the limit check before either response arrived)
InitResub ==
  LET l(n) == [id |-> n, handle |-> n, eventType |-> "newHeads", params |-> "{}",
               origin |-> "noop"]
  IN /\ conn = "open"
     /\ detached = [d \in DetachedKinds |-> 0]
     /\ reconnectAttempts = 0
     /\ heartbeatInterval = TRUE
     /\ heartbeatTimers = 1
     /\ isConnecting = FALSE
     /\ timers = 0
     /\ clientHandlers = TRUE
     /\ listeners = {}
     /\ subscriptions = << NewSubscription(l(1), 1, TRUE), NewSubscription(l(2), 2, TRUE) >>
     /\ requestId = 3
     /\ tasks = EmptyBag
     /\ wire = {}
     /\ ev = Quiet
     /\ terminal = FALSE
     /\ sinceOpen = 0
     /\ faults = 0
     /\ exhausted = FALSE
     /\ disconnected = FALSE
     /\ caps = [ids |-> ResubRequestId, faults |-> ResubFaults, tasks |-> ResubTasks,
                outage |-> FALSE]

\* ---- HTTP calls
CallRPC(method, params, response) ==
  Apply(CallRpc(Begin("rpc"), method, params, response))

\* the client used for HTTP calls only
InitRpc == Start([ids |-> RpcRequestId, faults |-> 0, tasks |-> 0, outage |-> FALSE])

NextRpc ==
  \/ Observe
  \/ \E method \in Methods, params \in ParamLists, response \in HttpResponses :
       CallRPC(method, params, response)

\* the general scenario with HTTP calls among the socket traffic; the round trip
\* of callRPC touches no field of the client, so it is folded into the call
NextCalls ==
  \/ Next
  \/ \E response \in { r \in HttpResponses : r.kind = "result" /\ r.echo } :
       /\ NoGap(Cur)
       /\ CallRPC("eth_chainId", << >>, response)

\* the connection attempt in flight ends: it opens, fails with error and close,
\* or runs into the connect timeout
AttemptEnds ==
  /\ conn = "connecting"
  /\ ConnOpens \/ ConnCloses \/ ConnectTimeout

\* what the event loop guarantees: timers fire, continuations run, and (assumed of
\* the network) an attempt in flight ends.  Calls by callers, messages and closes
\* by the peer, and what becomes of a socket after its connect timeout are free.
\* Fairness is strong because a step is enabled only once the step before it
\* has been taken note of (Observe): a callback that is due again and again runs.
Fairness ==
  /\ WF_vars(Observe)
  /\ SF_vars(ReconnectTimer)
  /\ SF_vars(HeartbeatTimer)
  /\ SF_vars(\E k \in Suspended(Cur) : PollTimer(k))
  /\ SF_vars(\E k \in Suspended(Cur) : SubscribeTimeout(k))
  /\ SF_vars(\E k \in Suspended(Cur) : GapContinue(k))
  /\ SF_vars(AttemptEnds)

\* the general scenario with two faults and one request
InitLive == Start([ids |-> LiveRequestId, faults |-> LiveFaults, tasks |-> LiveTasks,
                   outage |-> FALSE])

Spec == Init /\ [][Next]_vars
SpecRpc == InitRpc /\ [][NextRpc]_vars
SpecOutage == InitOutage /\ [][Next]_vars
SpecResub == InitResub /\ [][Next]_vars
SpecCalls == Init /\ [][NextCalls]_vars
SpecLive == InitLive /\ [][Next]_vars /\ Fairness

\* ---------------------------------------------------------------- claims
\* C1: the number of entries in the subscription registry never exceeds the
\* configured maximum, also when several subscribe() calls are in flight that all
\* passed the limit check before any response arrived.  Counted here are only
\* the entries whose handle a caller's subscribe() returned.
C1_RegistryWithinLimit ==
  Cardinality({ i \in 1..Len(subscriptions) : subscriptions[i].returned })
    <= SubscriptionLimit

\* C2: a response that carries the request id of a subscribe() call that already
\* failed with the timeout error is discarded: the registry gains no entry.
C2_LateResponseDiscarded ==
  [][(ev'.op = "response" /\ ev'.aux = "late") => subscriptions' = subscriptions]_vars

\* C3: a notification that is delivered for a subscription a caller attached a
\* callback to invokes that callback, also after the subscription was re-issued
\* by resubscribeAll under a new server id.
C3_OriginalCallbackInvoked ==
  (ev.op = "notify" /\ ev.res # "dropped" /\ ev.aux # "noop") => ev.res = ev.aux

\* C4: after disconnect() no reconnect timer is pending: the pending one is
\* cancelled and the close of the socket being disconnected schedules none, until
\* the client calls connect() again.
C4_DisconnectTerminal == terminal => timers = 0

\* C5: a connect() call that waited on the attempt in flight never fails once
\* that attempt has opened (unless the caller has disconnected meanwhile).
C5_WaitersSucceed == ~(ev.op = "poll" /\ ev.aux = "opened" /\ ~terminal)

\* C6: whenever "reconnected" is emitted, one eth_subscribe request goes out for
\* every subscription the registry held: no entry is given up without a request.
C6_AllReissued == ev.lost = {}

\* C7: a handle that subscribe() returned stays in the registry until
\* unsubscribe() or disconnect() is called.
C7_HandleStaysKnown ==
  [][\A i \in 1..Len(subscriptions) :
       subscriptions[i].returned =>
         \/ subscriptions[i].handle \in HandlesOf(subscriptions')
         \/ ev'.op \in {"unsubscribe", "disconnect"}]_vars

\* C8: the k-th reconnect scheduled since the last open has delay
\* 1000 * 2^(k-1), that is 1000, 2000, 4000, 8000, 16000; the attempt counter is
\* the number of reconnects scheduled since the last open; an open resets it to 0.
C8_BackoffSchedule ==
  /\ reconnectAttempts = sinceOpen
  /\ ev.delay # 0 => /\ sinceOpen \in 1..5
                     /\ ev.delay = << 1000, 2000, 4000, 8000, 16000 >>[sinceOpen]
  /\ ev.op = "open" => reconnectAttempts = 0

\* the fifth reconnect in a row is scheduled, with delay 16000
C8_FifthAttempt == ev.delay = 16000 /\ sinceOpen = 5

\* C9: a close that finds the attempt counter at maxReconnectAttempts emits
\* maxReconnectAttemptsReached and schedules no reconnect; never more than
\* maxReconnectAttempts reconnects are scheduled without an open in between.
C9_Exhausted ==
  /\ [](sinceOpen <= maxReconnectAttempts)
  /\ [][(ev'.op = "close" /\ reconnectAttempts >= maxReconnectAttempts) =>
          /\ "maxReconnectAttemptsReached" \in ev'.emitted
          /\ ev'.delay = 0
          /\ timers' <= timers
          /\ reconnectAttempts' = reconnectAttempts]_vars

\* a close found the counter at the maximum
C9_GaveUp == ev.op = "close" /\ "maxReconnectAttemptsReached" \in ev.emitted

\* C10: subscribe() called while the registry holds the maximum number of entries
\* fails at once with the limit error: no connect attempt, no frame, no request
\* id used, registry unchanged.
C10_LimitFailsFast ==
  [][(ev'.op = "subscribe" /\ Len(subscriptions) >= SubscriptionLimit) =>
       /\ ev'.res = "SUBSCRIPTION_LIMIT_EXCEEDED"
       /\ ev'.sent = {}
       /\ conn' = conn /\ isConnecting' = isConnecting /\ detached' = detached
       /\ requestId' = requestId
       /\ tasks' = tasks
       /\ subscriptions' = subscriptions]_vars

\* a subscribe() call was refused by a full registry
C10_Refused ==
  /\ ev.op = "subscribe" /\ ev.res = "SUBSCRIPTION_LIMIT_EXCEEDED"
  /\ Len(subscriptions) >= SubscriptionLimit

\* C11: a subscribe() call whose request got no matching message when its timer
\* fires fails with "Subscription timeout"; the step stores nothing in the
\* registry, and no entry stored for the call's request id exists while the call
\* waits or when it fails.
C11_TimeoutWithoutEntry ==
  /\ [](\A k \in Suspended(Cur) :
          k.pc = "sent" => \A i \in 1..Len(subscriptions) : subscriptions[i].req # k.req)
  /\ [][ev'.op = "subscribeTimeout" =>
          \E k \in Suspended(Cur) :
            /\ k.pc = "sent"
            /\ k \notin BagToSet(tasks')
            /\ k.kind = "sub" => /\ ev'.res = "Subscription timeout"
                                 /\ subscriptions' = subscriptions
            /\ \A i \in 1..Len(subscriptions') : subscriptions'[i].req # k.req]_vars

\* a caller's subscribe() failed with the timeout error
C11_TimedOut == ev.op = "subscribeTimeout" /\ ev.res = "Subscription timeout"

\* C12: with two subscribe() calls in flight, a response completes only the call
\* whose request id it carries, whichever arrives first, and the entry stored
\* maps that call's handle to the server id of that response.
C12_CorrelatedById ==
  [][ev'.op = "response" =>
       LET m == ev'.msg[1] IN
       \A k \in Suspended(Cur) :
         k.pc = "sent" =>
           IF k.req # m.id THEN k \in BagToSet(tasks')
           ELSE /\ k \notin BagToSet(tasks')
                /\ m.result # RpcError =>
                     \E l \in listeners, i \in 1..Len(subscriptions') :
                       /\ l.id = k.req
                       /\ subscriptions'[i].handle = l.handle
                       /\ subscriptions'[i].id = m.result
                       /\ subscriptions'[i].req = k.req]_vars

\* the response to the later of two requests in flight arrived first
C12_OutOfOrder ==
  /\ ev.op = "response" /\ ev.res = "ok"
  /\ \E k \in Suspended(Cur) : k.pc = "sent" /\ k.req < ev.msg[1].id

\* C14: a registry entry holds a server id only while the connection is open;
\* after an unexpected close no entry still carries one.
C14_IdsOnlyWhileOpen == subscriptions # << >> => conn = "open"

\* C15: at most one socket created by the manager is attempting to open at any
\* time.
C15_OneSocketOpening ==
  (IF conn \in {"connecting", "late"} THEN 1 ELSE 0) + detached["late"] <= 1

\* C16: unsubscribe(h) for a handle in the registry sends one eth_unsubscribe
\* envelope and returns true, whatever the connection state.
C16_UnsubscribeAlwaysTrue ==
  (ev.op = "unsubscribe" /\ ev.aux = "known") =>
    /\ ev.res = "true"
    /\ Cardinality(ev.sent) = 1

\* C17: unsubscribe(h) for a handle that is not in the registry returns false,
\* sends no frame, uses no request id and leaves the registry unchanged.
C17_UnknownHandle ==
  [][(ev'.op = "unsubscribe" /\ ev'.aux = "unknown") =>
       /\ ev'.res = "false"
       /\ ev'.sent = {}
       /\ requestId' = requestId
       /\ subscriptions' = subscriptions]_vars

\* unsubscribe() was called with an unknown handle while the registry holds
\* another one
C17_Unknown ==
  ev.op = "unsubscribe" /\ ev.aux = "unknown" /\ subscriptions # << >>

\* C13: callRPC never returns the result of a response whose id differs from the
\* id of the request it sent.
C13_ResultOnlyForOwnId ==
  (ev.op = "rpc" /\ ev.rpc[1].returned) => ev.rpc[1].responseId = ev.rpc[1].id

\* C18: for an error response the kind of the error callRPC raises depends on the
\* message alone: RealtimeTransactionExpiredError when it contains "realtime
\* transaction expired", else MiniBlockNotFoundError when it contains "mini block
\* not found", else a plain MegaETHError.
C18_KindByMessage ==
  (ev.op = "rpc" /\ ev.rpc[1].method # "" /\ ev.rpc[1].response.kind = "error") =>
    LET m == ev.rpc[1].response.message
        e == ev.rpc[1].thrown
    IN /\ Len(e) = 1
       /\ e[1].kind = IF Includes(m, ExpiredText) THEN "RealtimeTransactionExpiredError"
                      ELSE IF Includes(m, MiniBlockText) THEN "MiniBlockNotFoundError"
                      ELSE "MegaETHError"

\* an error message with both texts was mapped to the expired error
C18_BothTexts ==
  /\ ev.op = "rpc" /\ ev.rpc[1].method # "" /\ ev.rpc[1].response.kind = "error"
  /\ Includes(ev.rpc[1].response.message, ExpiredText)
  /\ Includes(ev.rpc[1].response.message, MiniBlockText)
  /\ ev.rpc[1].thrown[1].kind = "RealtimeTransactionExpiredError"

\* C19: for an error response whose non-empty message has neither text, the
\* MegaETHError raised carries the code and the data of the response, whatever
\* they are.
C19_CodeAndDataPreserved ==
  (/\ ev.op = "rpc" /\ ev.rpc[1].method # "" /\ ev.rpc[1].response.kind = "error"
   /\ ev.rpc[1].response.message # << >>
   /\ ~Includes(ev.rpc[1].response.message, ExpiredText)
   /\ ~Includes(ev.rpc[1].response.message, MiniBlockText)
   /\ ev.rpc[1].response.code # << >>) =>
    /\ ev.rpc[1].thrown[1].code = ev.rpc[1].response.code[1]
    /\ ev.rpc[1].thrown[1].data = ev.rpc[1].response.data

\* C20: every error callRPC raises for an error response or a transport failure
\* carries the method and the parameter list of the call.
C20_ErrorsCarryCall ==
  (ev.op = "rpc" /\ ev.rpc[1].method # "" /\ ev.rpc[1].thrown # << >>) =>
    /\ ev.rpc[1].thrown[1].annotated
    /\ ev.rpc[1].thrown[1].rpcMethod = ev.rpc[1].method
    /\ ev.rpc[1].thrown[1].rpcParams = ev.rpc[1].params
\* C21: when the HTTP request itself fails and the failure carries an error body,
\* callRPC raises the error the message of that body stands for, by the rules for
\* an error response: the expired error, else the mini block error with the block
\* reference of the params, else a MegaETHError.
C21_EmbeddedErrorClassified ==
  (/\ ev.op = "rpc" /\ ev.rpc[1].method # ""
   /\ ev.rpc[1].response.kind = "transport"
   /\ ev.rpc[1].response.message # << >>) =>
    LET m == ev.rpc[1].response.message
        e == ev.rpc[1].thrown[1]
    IN /\ e.kind = IF Includes(m, ExpiredText) THEN "RealtimeTransactionExpiredError"
                   ELSE IF Includes(m, MiniBlockText) THEN "MiniBlockNotFoundError"
                   ELSE "MegaETHError"
       /\ e.kind = "MiniBlockNotFoundError" =>
            e.message = << "Mini block ", FirstParam(ev.rpc[1].params, "0"), " not found" >>
\* C22: once the manager has emitted "maxReconnectAttemptsReached", no subscribe()
\* call of a caller succeeds any more, as long as the caller neither disconnects
\* nor asks for a reconnect (the model has no call for the latter).
C22_ExhaustedIsTerminal ==
  exhausted =>
    ~(/\ ev.op = "response" /\ ev.res = "ok"
      /\ \E i \in 1..Len(subscriptions) :
           subscriptions[i].req = ev.msg[1].id /\ subscriptions[i].returned)
\* C23: callbacks are invoked only by the step that receives a notification, at
\* most once for that message and with the payload of that message: a message is
\* delivered before the next one is received, never twice and never later.
C23_DeliveredOnceInOrder ==
  /\ ev.calls # << >> => ev.op = "notify"
  /\ ev.op = "notify" =>
       /\ Len(ev.note) = 1
       /\ Len(ev.calls) <= 1
       /\ \A i \in 1..Len(ev.calls) : ev.calls[i].arg = ev.note[1].result

\* a notification whose server id two registry entries carry invoked one callback
C23_SharedServerId ==
  /\ ev.op = "notify" /\ Len(ev.calls) = 1
  /\ Cardinality({ i \in 1..Len(subscriptions) :
                     subscriptions[i].id = ev.note[1].subscription }) = 2

\* C24: a notification invokes the callback of a registry entry whose server id
\* is the notification's subscription id, with the notification's result; when no
\* entry has that server id no callback is invoked.
C24_RoutedByServerId ==
  ev.op = "notify" =>
    LET m == ev.note[1]
        hit == { i \in 1..Len(subscriptions) : subscriptions[i].id = m.subscription }
    IN IF hit = {} THEN ev.calls = << >>
       ELSE /\ Len(ev.calls) = 1
            /\ ev.calls[1].arg = m.result
            /\ \E i \in hit : ev.calls[1].callback = subscriptions[i].callback

\* C30: after client.disconnect(), a new subscribe() and setSubscriptionCallback(),
\* a notification with the server id of that subscription invokes the callback.
C30_RoutingSurvivesDisconnect ==
  (/\ disconnected
   /\ ev.op = "notify"
   /\ \E i \in 1..Len(subscriptions) :
        /\ subscriptions[i].id = ev.note[1].subscription
        /\ subscriptions[i].callback \in Callbacks) =>
    /\ Len(ev.calls) = 1
    /\ ev.calls[1].callback \in Callbacks
\* C27: a ping is sent only while this.connection is open; every open leaves a
\* heartbeat interval running; never more than one interval is running.
C27_OneHeartbeat ==
  /\ heartbeatTimers <= 1
  /\ heartbeatInterval <=> heartbeatTimers = 1
  /\ ev.op = "open" => heartbeatTimers = 1
  /\ Ping \in ev.sent => ev.op = "heartbeat" /\ conn = "open"

\* a ping went out on a connection that opened after a close or a connect timeout
C27_PingAfterReconnect ==
  ev.op = "heartbeat" /\ Ping \in ev.sent /\ faults > 0
\* C25: when the re-subscription of a snapshot entry fails (error response,
\* timeout, limit error, connection not open or not established), resubscribeAll
\* calls subscribe() for the next entry of the snapshot in the same step.
C25_FailureDoesNotAbort ==
  \A x \in ev.failed :
    x.idx < x.of => [idx |-> x.idx + 1, of |-> x.of] \in ev.tried

\* the first of two snapshot entries failed and the second was attempted
C25_SecondAttempted ==
  /\ [idx |-> 1, of |-> 2] \in ev.failed
  /\ [idx |-> 2, of |-> 2] \in ev.tried

\* the state InitResub starts in, as a state of the general scenario (it is
\* reached there)
ResubStartReached ==
  /\ conn = "open" /\ DetachedCount(Cur) = 0 /\ reconnectAttempts = 0
  /\ heartbeatInterval /\ heartbeatTimers = 1 /\ ~isConnecting /\ timers = 0
  /\ clientHandlers /\ listeners = {} /\ requestId = 3 /\ tasks = EmptyBag
  /\ wire = {} /\ ev = Quiet /\ ~terminal /\ sinceOpen = 0 /\ faults = 0
  /\ ~exhausted /\ ~disconnected
  /\ Len(subscriptions) = 2
  /\ \A n \in 1..2 :
       subscriptions[n] = [handle |-> n, id |-> n, eventType |-> "newHeads",
                           params |-> "{}", callback |-> "noop", origin |-> "noop",
                           returned |-> TRUE, req |-> n]
\* C26: every envelope built in a step (eth_subscribe, eth_unsubscribe, HTTP call)
\* has an id that is at least the counter before the step and below the counter
\* after it, and two envelopes of one step have different ids; the counter never
\* goes down.  Hence ids differ from all ids issued before and grow in the order
\* of issue.
C26_IdsDistinctAndIncreasing ==
  [][LET frames == ev'.sent \ {Ping}
         calls == { i \in 1..Len(ev'.rpc) : ev'.rpc[i].method # "" }
         issued == { f.id : f \in frames } \cup { ev'.rpc[i].id : i \in calls }
     IN /\ requestId' >= requestId
        /\ issued \subseteq requestId..(requestId' - 1)
        /\ \A f, g \in frames : f.id = g.id => f = g
        /\ \A f \in frames : \A i \in calls : f.id # ev'.rpc[i].id]_vars

\* an HTTP call got id 2 while the subscribe request with id 1 was in flight
C26_Overlapping ==
  /\ ev.op = "rpc" /\ ev.rpc[1].id = 2 /\ requestId = 3
  /\ \E k \in Suspended(Cur) : k.pc = "sent" /\ k.req = 1
\* C28: the handle under which a successful subscribe() call of a caller stores
\* its entry is not a key of the registry before: no two calls return the same
\* handle and no entry is overwritten.
C28_HandlesNeverReused ==
  [][\A i \in 1..Len(subscriptions') :
       (/\ ev'.op = "response"
        /\ subscriptions'[i].returned
        /\ subscriptions'[i].req = ev'.msg[1].id) =>
         subscriptions'[i].handle \notin HandlesOf(subscriptions)]_vars
\* C29: after a close that scheduled a reconnect, the manager eventually emits
\* "reconnected" or "maxReconnectAttemptsReached", unless the caller disconnects
\* (or the scenario's request ids are used up).
C29_ReconnectLoopEnds ==
  [](/\ ev.op = "close" /\ ev.delay # 0 /\ ~disconnected
     => <>(\/ "reconnected" \in ev.emitted
           \/ "maxReconnectAttemptsReached" \in ev.emitted
           \/ disconnected
           \/ requestId > caps.ids))
====
